---- MODULE Spec2Model ----
(***************************************************************************)
(* Model of lcb_runner/runner/base_runner.py: BaseRunner, the batch        *)
(* execution engine (cache load, run_single, run_batch, save_cache,        *)
(* run_main).                                                              *)
(*                                                                         *)
(* Python values are modelled as follows.                                  *)
(*   - a str used as a dict key or a prompt is a sequence of tokens;       *)
(*   - a value held in `outputs` or in the cache is a record               *)
(*     [isList, items]: a list of strings (isList = TRUE) or a str         *)
(*     (isList = FALSE, items = its characters), so that len(v) is         *)
(*     Len(v.items) for both, as in Python;                                *)
(*   - a prompt is [isList, text, msgs]: a str (text) or a list of         *)
(*     role/content messages (msgs).                                       *)
(***************************************************************************)
EXTENDS Integers, Sequences, FiniteSets, TLC

VARIABLES
    args,      \* self.args: scenario, use_cache, n, multiprocess
    disk,      \* the file at self.cache_path
    cache,     \* self.cache
    prompts,   \* the batch handed to run_batch
    pc,        \* position of the main thread in run_main / run_batch
    exc,       \* the exception that ended run_main, "none" if none did
    res,       \* per task: pending, running (worker called), or done with its outcome
    outputs,   \* run_batch's outputs list
    flushes,   \* number of times save_cache opened the store for writing in this run
    run,       \* number of the current run of the program
    prev,      \* what the previous run of the program returned
    check_metadata, \* self-repair: the records of the prior graded run
    rec,       \* self-repair: index of the record `check` being replayed
    att,       \* self-repair: the index i of the attempt being replayed
    output,    \* self-repair: the output list of the current record
    invocations \* self-repair: the calls of the worker made so far, in order

repairVars == <<check_metadata, rec, att, output, invocations>>

vars == <<args, disk, cache, prompts, pc, exc, res, outputs, flushes, run, prev, repairVars>>

----------------------------------------------------------------------------
(* Bounds of the model *)

MaxTasks == 3
MaxN == 2
MaxProcs == 2
MaxRuns == 2
MaxRecords == 2
MaxAttempts == 3

----------------------------------------------------------------------------
(* Python values *)

PyList(s) == [isList |-> TRUE, items |-> s]
PyStr(s) == [isList |-> FALSE, items |-> s]
PyLen(v) == Len(v.items)

EmptyStr == PyStr(<<>>)

None == [none |-> TRUE, d |-> <<>>]
Dict(d) == [none |-> FALSE, d |-> d]

TextPrompt(t) == [isList |-> FALSE, text |-> t, msgs |-> <<>>]
ChatPrompt(m) == [isList |-> TRUE, text |-> <<>>, msgs |-> m]

TextT == TextPrompt(<<"T">>)
ConvA == ChatPrompt(<< <<"user", "A">> >>)
ConvB == ChatPrompt(<< <<"user", "B">> >>)

Tasks == {TextT, ConvA, ConvB}

RECURSIVE SeqsUpTo(_, _)
SeqsUpTo(S, k) ==
    IF k = 0 THEN {<<>>}
    ELSE LET shorter == SeqsUpTo(S, k - 1)
         IN  shorter \cup {Append(s, x) : s \in {t \in shorter : Len(t) = k - 1}, x \in S}

(* json.dumps of a list of {"role": r, "content": c} dicts, token by token *)
JsonDumpsMsg(m) == <<"{", "role", m[1], "content", m[2], "}">>

RECURSIVE JsonDumpsItems(_)
JsonDumpsItems(msgs) ==
    IF msgs = <<>> THEN <<>>
    ELSE JsonDumpsMsg(Head(msgs)) \o JsonDumpsItems(Tail(msgs))

JsonDumps(msgs) == <<"[">> \o JsonDumpsItems(msgs) \o <<"]">>

(* json.dump of the cache dict: the document is its set of key/value members; *)
(* json.load rebuilds the dict from the members.                               *)
JsonDumpDict(d) == {<<k, d[k]>> : k \in DOMAIN d}
JsonLoadDict(doc) ==
    [k \in {m[1] : m \in doc} |-> (CHOOSE m \in doc : m[1] = k)[2]]

----------------------------------------------------------------------------
(* The caller-supplied worker, self._run_single: returns a list of strings  *)
(* (of the right length or not) or raises.                                   *)

Sample == << <<"x1", "x2", "x3", "x4">>, <<"y1", "y2", "y3", "y4">> >>

WorkerList(v, len) == PyList([k \in 1..len |-> Sample[v][k]])

WorkerReturns(n) ==
    {WorkerList(v, n) : v \in 1..2} \cup {WorkerList(1, n - 1)}

----------------------------------------------------------------------------
(* Outcome of one task: the value run_single returned, or the exception it   *)
(* raised.  called = the worker (call_method) was invoked for the task.       *)

Success(r, called) == [ok |-> TRUE, result |-> r, status |-> "Success", called |-> called]
Failure(status, called) == [ok |-> FALSE, result |-> EmptyStr, status |-> status, called |-> called]

Pending == [st |-> "pending", out |-> Failure("none", FALSE)]
Running == [st |-> "running", out |-> Failure("none", TRUE)]
Done(o) == [st |-> "done", out |-> o]

Idx == 1..Len(prompts)

----------------------------------------------------------------------------
(* Persisted stores the program may find at start *)

StoredList == PyList(<<"c1", "c2">>)

OldStore ==
    (JsonDumps(ConvA.msgs) :> StoredList) @@ (TextT.text :> StoredList)

InitialDisks ==
    {[state |-> "absent", doc |-> {}],
     [state |-> "ok", doc |-> JsonDumpDict(OldStore)]}

(* A construction that loads the store whatever use_cache says *)
LoadCacheAlways(use_cache, dsk) ==
    IF dsk.state = "absent" THEN Dict(<<>>) ELSE Dict(JsonLoadDict(dsk.doc))

(* BaseRunner.__init__: the cache after construction *)
LoadCache(use_cache, dsk) ==
    IF use_cache
    THEN IF dsk.state = "absent" THEN Dict(<<>>) ELSE Dict(JsonLoadDict(dsk.doc))
    ELSE None

Init ==
    /\ args \in [scenario : {"codegeneration"}, use_cache : BOOLEAN,
                 n : 1..MaxN, multiprocess : 1..MaxProcs]
    /\ disk \in InitialDisks
    /\ cache = LoadCache(args.use_cache, disk)
    /\ prompts \in SeqsUpTo(Tasks, MaxTasks)
    /\ pc = "constructed"
    /\ exc = "none"
    /\ res = [i \in 1..Len(prompts) |-> Pending]
    /\ outputs = <<>>
    /\ flushes = 0
    /\ run = 1
    /\ prev = [returned |-> FALSE, outputs |-> <<>>, clean |-> FALSE]
    /\ check_metadata = <<>>
    /\ rec = 1
    /\ att = 1
    /\ output = <<>>
    /\ invocations = <<>>

----------------------------------------------------------------------------
(* The cache check without line 54's test of the cached value's length *)
CacheCheckAnyLength(prompt, c, n) ==
    IF c.none THEN [kind |-> "call", value |-> EmptyStr]
    ELSE IF ~prompt.isList THEN [kind |-> "raise", value |-> EmptyStr]
    ELSE LET prompt_cache == JsonDumps(prompt.msgs)
         IN  IF prompt_cache \in DOMAIN c.d
             THEN [kind |-> "hit", value |-> c.d[prompt_cache]]
             ELSE [kind |-> "call", value |-> EmptyStr]

(* run_single, lines 49-55: the cache check made before the worker is called. *)
(* prompt_cache is assigned only for a list prompt; reading it for a str       *)
(* prompt raises UnboundLocalError, and it is read only when cache is not None *)
(* (the `and` short-circuits).                                                 *)
CacheCheck(prompt, c, n) ==
    IF c.none THEN [kind |-> "call", value |-> EmptyStr]
    ELSE IF ~prompt.isList THEN [kind |-> "raise", value |-> EmptyStr]
    ELSE LET prompt_cache == JsonDumps(prompt.msgs)
         IN  IF prompt_cache \in DOMAIN c.d /\ PyLen(c.d[prompt_cache]) = n
             THEN [kind |-> "hit", value |-> c.d[prompt_cache]]
             ELSE [kind |-> "call", value |-> EmptyStr]

(* A run_single that stores the value it returns in the cache *)
RunSingleCacheWrites(c, prompt, o) ==
    IF c.none \/ ~o.ok \/ ~prompt.isList THEN c
    ELSE LET k == JsonDumps(prompt.msgs)
         IN  Dict([x \in DOMAIN c.d \cup {k} |-> IF x = k THEN o.result ELSE c.d[x]])

(* run_single, lines 39-60: the cache after the task has reached outcome o. *)
(* run_single reads self.cache (lines 53-55) and never assigns to it.       *)
RunSingleCache(c, prompt, o) == c

(* run_single, lines 57-60: the assert on the worker's result *)
CheckResult(result, n) ==
    IF PyLen(result) = n THEN Success(result, TRUE) ELSE Failure("AssertionError", TRUE)

----------------------------------------------------------------------------
(* Scheduling of run_single over the tasks: sequentially in input order       *)
(* (line 89) or on a pool of args.multiprocess workers (lines 74-79).         *)

Parallel == args.multiprocess > 1

InFlight == {j \in Idx : res[j].st = "running"}

(* run_tasks_in_parallel: at most args.multiprocess tasks at a time, picked *)
(* in any order                                                             *)
CanStartPool(i) == Cardinality(InFlight) < args.multiprocess

(* A sequential mode that takes the tasks one at a time in any order *)
CanStartAnyOrder(i) == InFlight = {}

(* the list comprehension of line 89: one task at a time, in input order *)
CanStartSequential(i) ==
    /\ InFlight = {}
    /\ \A j \in Idx : j < i => res[j].st = "done"

CanStart(i) == IF Parallel THEN CanStartPool(i) ELSE CanStartSequential(i)

(* run_tasks_in_parallel: the value or the exception of run_single is kept *)
(* as the task's outcome (is_success, result, status, exception_tb)         *)
RecordPool(i, o) ==
    /\ res' = [res EXCEPT ![i] = Done(o)]
    /\ UNCHANGED <<pc, exc>>

(* line 89: an exception of run_single leaves the list comprehension, *)
(* run_batch and run_main                                             *)
RecordSequential(i, o) ==
    /\ res' = [res EXCEPT ![i] = Done(o)]
    /\ IF o.ok
       THEN UNCHANGED <<pc, exc>>
       ELSE pc' = "raised" /\ exc' = o.status

Record(i, o) == IF Parallel THEN RecordPool(i, o) ELSE RecordSequential(i, o)

AllDone == \A j \in Idx : res[j].st = "done"

----------------------------------------------------------------------------
(* run_batch, lines 80-87: outputs built from the pool's ordered outcomes. *)
(* extend adds the n elements of [""] * n one by one.                       *)

Repeat(x, k) == [j \in 1..k |-> x]

RECURSIVE ParallelOutputs(_, _, _)
ParallelOutputs(outs, i, n) ==
    IF i > Len(outs) THEN <<>>
    ELSE (IF outs[i].ok THEN <<outs[i].result>> ELSE Repeat(EmptyStr, n))
         \o ParallelOutputs(outs, i + 1, n)

(* run_batch, line 89 *)
SequentialOutputs(outs) == [i \in 1..Len(outs) |-> outs[i].result]

Min(a, b) == IF a < b THEN a ELSE b

(* run_batch, lines 92-95: the loop over zip(prompts, outputs).  prompt_cache *)
(* is assigned only for a list prompt: a str prompt met before any list       *)
(* prompt raises UnboundLocalError, one met after writes under the key of     *)
(* the last list prompt.  bound = prompt_cache has been assigned.             *)
RECURSIVE MergeLoop(_, _, _, _, _, _)
MergeLoop(ps, outs, i, d, bound, prompt_cache) ==
    IF i > Min(Len(ps), Len(outs)) THEN [d |-> d, raised |-> FALSE]
    ELSE IF ps[i].isList
         THEN LET k == JsonDumps(ps[i].msgs)
              IN  MergeLoop(ps, outs, i + 1,
                            [x \in DOMAIN d \cup {k} |-> IF x = k THEN outs[i] ELSE d[x]],
                            TRUE, k)
         ELSE IF bound
              THEN MergeLoop(ps, outs, i + 1,
                             [x \in DOMAIN d \cup {prompt_cache} |->
                                 IF x = prompt_cache THEN outs[i] ELSE d[x]],
                             TRUE, prompt_cache)
              ELSE [d |-> d, raised |-> TRUE]

Merge(ps, outs, d) == MergeLoop(ps, outs, 1, d, FALSE, <<>>)

----------------------------------------------------------------------------
(* Actions *)

(* run_main, lines 127-131, and run_batch, lines 63-72 *)
RunMain ==
    /\ pc = "constructed"
    /\ args.scenario # "selfrepair"
    /\ pc' = "batch"
    /\ UNCHANGED <<args, disk, cache, prompts, exc, res, outputs, flushes, run, prev, repairVars>>

(* run_single up to the call of the worker *)
StartTask(i) ==
    /\ pc = "batch"
    /\ res[i].st = "pending"
    /\ CanStart(i)
    /\ LET chk == CacheCheck(prompts[i], cache, args.n)
       IN  CASE chk.kind = "raise" -> Record(i, Failure("UnboundLocalError", FALSE))
             [] chk.kind = "hit" -> Record(i, Success(chk.value, FALSE))
             [] OTHER -> /\ res' = [res EXCEPT ![i] = Running]
                         /\ UNCHANGED <<pc, exc>>
    /\ cache' = RunSingleCache(cache, prompts[i], res'[i].out)
    /\ UNCHANGED <<args, disk, prompts, outputs, flushes, run, prev, repairVars>>

(* the worker returns a list; run_single asserts its length and returns it *)
WorkerReturn(i) ==
    /\ pc = "batch"
    /\ res[i].st = "running"
    /\ \E result \in WorkerReturns(args.n) : Record(i, CheckResult(result, args.n))
    /\ cache' = RunSingleCache(cache, prompts[i], res'[i].out)
    /\ UNCHANGED <<args, disk, prompts, outputs, flushes, run, prev, repairVars>>

(* the worker raises *)
WorkerRaise(i) ==
    /\ pc = "batch"
    /\ res[i].st = "running"
    /\ Record(i, Failure("WorkerError", TRUE))
    /\ cache' = RunSingleCache(cache, prompts[i], res'[i].out)
    /\ UNCHANGED <<args, disk, prompts, outputs, flushes, run, prev, repairVars>>

Outcomes == [i \in Idx |-> res[i].out]

(* run_batch, lines 80-87 *)
CollectParallel ==
    /\ pc = "batch"
    /\ Parallel
    /\ AllDone
    /\ outputs' = ParallelOutputs(Outcomes, 1, args.n)
    /\ pc' = "collected"
    /\ UNCHANGED <<args, disk, cache, prompts, exc, res, flushes, run, prev, repairVars>>

(* run_batch, line 89 *)
CollectSequential ==
    /\ pc = "batch"
    /\ ~Parallel
    /\ AllDone
    /\ outputs' = SequentialOutputs(Outcomes)
    /\ pc' = "collected"
    /\ UNCHANGED <<args, disk, cache, prompts, exc, res, flushes, run, prev, repairVars>>

(* run_batch, lines 91-97 *)
MergeCache ==
    /\ pc = "collected"
    /\ IF args.use_cache
       THEN LET m == Merge(prompts, outputs, cache.d)
            IN  /\ cache' = Dict(m.d)
                /\ pc' = IF m.raised THEN "raised" ELSE "batch_returned"
                /\ exc' = IF m.raised THEN "UnboundLocalError" ELSE exc
       ELSE /\ cache' = cache
            /\ pc' = "batch_returned"
            /\ exc' = exc
    /\ UNCHANGED <<args, disk, prompts, res, outputs, flushes, run, prev, repairVars>>

(* run_main, line 132, and save_cache, lines 30-33 *)
SaveCache ==
    /\ pc = "batch_returned"
    /\ IF args.use_cache
       THEN /\ disk' = [state |-> "ok", doc |-> JsonDumpDict(cache.d)]
            /\ flushes' = flushes + 1
       ELSE UNCHANGED <<disk, flushes>>
    /\ pc' = "saved"
    /\ UNCHANGED <<args, cache, prompts, exc, res, outputs, run, prev, repairVars>>

(* save_cache, lines 32-33, failing with an I/O error: open(path, "w") fails *)
(* and leaves the file as it was, or json.dump fails after open truncated    *)
(* the file and leaves it partly written.                                     *)
SaveCacheFails ==
    /\ pc = "batch_returned"
    /\ args.use_cache
    /\ disk' \in {disk, [state |-> "partial", doc |-> {}]}
    /\ flushes' = flushes + 1
    /\ pc' = "raised"
    /\ exc' = "OSError"
    /\ UNCHANGED <<args, cache, prompts, res, outputs, run, prev, repairVars>>

(* run_main, line 133 *)
Return ==
    /\ pc = "saved"
    /\ pc' = "returned"
    /\ UNCHANGED <<args, disk, cache, prompts, exc, res, outputs, flushes, run, prev, repairVars>>

(* The program is run again on the same batch: a new BaseRunner is *)
(* constructed (lines 14-28) and loads the persisted store.         *)
WorkerFailed == \E j \in Idx : res[j].out.status \in {"WorkerError", "AssertionError"}

Rerun ==
    /\ pc = "returned"
    /\ run < MaxRuns
    /\ run' = run + 1
    /\ prev' = [returned |-> TRUE, outputs |-> outputs, clean |-> ~WorkerFailed]
    /\ cache' = LoadCache(args.use_cache, disk)
    /\ res' = [i \in Idx |-> Pending]
    /\ outputs' = <<>>
    /\ flushes' = 0
    /\ pc' = "constructed"
    /\ UNCHANGED <<args, disk, prompts, exc, repairVars>>

Next ==
    \/ RunMain
    \/ \E i \in Idx : StartTask(i)
    \/ \E i \in Idx : WorkerReturn(i)
    \/ \E i \in Idx : WorkerRaise(i)
    \/ CollectParallel
    \/ CollectSequential
    \/ MergeCache
    \/ SaveCache
    \/ SaveCacheFails
    \/ Return

(* One run of the program *)
Spec == Init /\ [][Next]_vars

----------------------------------------------------------------------------
(* Self-repair mode: run_main, lines 100-126 *)

EmptyPrompt == TextPrompt(<<>>)

(* what format_prompt may return for an attempt: "", another str, a list *)
RepairPrompts == {EmptyPrompt, TextT, ConvA}

(* the i-th stored output of a record (check["output_list"][i]): a str *)
StoredOutput(j) == PyStr(Repeat("o", j))

(* one record of check_metadata; repair_prompt[i] is what format_prompt       *)
(* returns for question_content, code_list[i], graded_list[i], metadata[i]    *)
RepairRecord(ps) ==
    [code_list |-> [j \in 1..Len(ps) |-> <<"code">>],
     output_list |-> [j \in 1..Len(ps) |-> StoredOutput(j)],
     repair_prompt |-> ps]

(* the files of at most k records with at most budget attempts in all *)
RECURSIVE Metadata(_, _)
Metadata(k, budget) ==
    IF k = 0 THEN {<<>>}
    ELSE {<<>>} \cup
         UNION {{<<RepairRecord(ps)>> \o rest : rest \in Metadata(k - 1, budget - Len(ps))} :
                  ps \in SeqsUpTo(RepairPrompts, budget)}

InitRepair ==
    /\ args \in [scenario : {"selfrepair"}, use_cache : BOOLEAN,
                 n : 1..MaxN, multiprocess : 1..MaxProcs]
    /\ disk \in InitialDisks
    /\ cache = LoadCache(args.use_cache, disk)
    /\ prompts = <<>>
    /\ pc = "constructed"
    /\ exc = "none"
    /\ res = <<>>
    /\ outputs = <<>>
    /\ flushes = 0
    /\ run = 1
    /\ prev = [returned |-> FALSE, outputs |-> <<>>, clean |-> FALSE]
    /\ check_metadata \in Metadata(MaxRecords, MaxAttempts)
    /\ rec = 1
    /\ att = 1
    /\ output = <<>>
    /\ invocations = <<>>

(* A test that reuses the stored output for the empty prompt only *)
ReusesOnlyEmpty(prompt) == prompt = EmptyPrompt

(* line 121: prompt == "" or type(prompt) is not list *)
ReusesStored(prompt) == prompt = EmptyPrompt \/ ~prompt.isList

(* A replay that stores the worker's result in the cache, as run_batch does *)
RepairCacheWrites(c, prompt, result) ==
    IF c.none THEN c
    ELSE LET k == JsonDumps(prompt.msgs)
         IN  Dict([x \in DOMAIN c.d \cup {k} |-> IF x = k THEN result ELSE c.d[x]])

(* line 124: output.append(self._run_single(prompt)): the worker's result *)
(* goes to output only, self.cache is not assigned                        *)
RepairCache(c, prompt, result) == c

InRecord == pc = "repair" /\ rec <= Len(check_metadata)
InAttempt == InRecord /\ att <= Len(check_metadata[rec].code_list)

(* lines 100-105: the records are loaded and the replay starts *)
RunMainRepair ==
    /\ pc = "constructed"
    /\ args.scenario = "selfrepair"
    /\ pc' = "repair"
    /\ rec' = 1
    /\ att' = 1
    /\ output' = <<>>
    /\ outputs' = <<>>
    /\ UNCHANGED <<args, disk, cache, prompts, exc, res, flushes, run, prev,
                   check_metadata, invocations>>

(* lines 111-122: the stored output of the attempt is reused *)
RepairReuse ==
    /\ InAttempt
    /\ LET check == check_metadata[rec]
       IN  /\ ReusesStored(check.repair_prompt[att])
           /\ output' = Append(output, check.output_list[att])
    /\ att' = att + 1
    /\ UNCHANGED <<args, disk, cache, prompts, pc, exc, res, outputs, flushes, run, prev,
                   check_metadata, rec, invocations>>

(* lines 111-124: the worker is called on the repair prompt *)
RepairCall ==
    /\ InAttempt
    /\ LET prompt == check_metadata[rec].repair_prompt[att]
       IN  /\ ~ReusesStored(prompt)
           /\ invocations' = Append(invocations,
                   [rec |-> rec, att |-> att, prompt |-> prompt,
                    back |-> FALSE, result |-> EmptyStr])
    /\ pc' = "repair_call"
    /\ UNCHANGED <<args, disk, cache, prompts, exc, res, outputs, flushes, run, prev,
                   check_metadata, rec, att, output>>

(* line 124: the worker returns and its result is appended as it is *)
RepairWorkerReturn ==
    /\ pc = "repair_call"
    /\ \E result \in WorkerReturns(args.n) :
          /\ output' = Append(output, result)
          /\ invocations' = [invocations EXCEPT ![Len(invocations)] =
                                [@ EXCEPT !.back = TRUE, !.result = result]]
          /\ cache' = RepairCache(cache, check_metadata[rec].repair_prompt[att], result)
    /\ att' = att + 1
    /\ pc' = "repair"
    /\ UNCHANGED <<args, disk, prompts, exc, res, outputs, flushes, run, prev,
                   check_metadata, rec>>

(* line 124: the worker raises; nothing catches the exception *)
RepairWorkerRaise ==
    /\ pc = "repair_call"
    /\ pc' = "raised"
    /\ exc' = "WorkerError"
    /\ UNCHANGED <<args, disk, cache, prompts, res, outputs, flushes, run, prev, repairVars>>

(* line 125, and line 104-105 for the next record *)
RepairNextRecord ==
    /\ InRecord
    /\ att > Len(check_metadata[rec].code_list)
    /\ outputs' = Append(outputs, output)
    /\ rec' = rec + 1
    /\ att' = 1
    /\ output' = <<>>
    /\ UNCHANGED <<args, disk, cache, prompts, pc, exc, res, flushes, run, prev,
                   check_metadata, invocations>>

(* line 126 *)
RepairReturn ==
    /\ pc = "repair"
    /\ rec > Len(check_metadata)
    /\ pc' = "returned"
    /\ UNCHANGED <<args, disk, cache, prompts, exc, res, outputs, flushes, run, prev, repairVars>>

NextRepair ==
    \/ RunMainRepair
    \/ RepairReuse
    \/ RepairCall
    \/ RepairWorkerReturn
    \/ RepairWorkerRaise
    \/ RepairNextRecord
    \/ RepairReturn

(* One run of the program in self-repair mode *)
SpecRepair == InitRepair /\ [][NextRepair]_vars

(* The program run up to MaxRuns times on the same batch *)
NextRerun ==
    \/ Next
    \/ Rerun

SpecRerun == Init /\ [][NextRerun]_vars

(* One run in which the program keeps taking steps while it has one to take: *)
(* the interpreter goes on to the next statement and every worker call       *)
(* comes back, by returning or by raising.                                   *)
SpecFair == Init /\ [][Next]_vars /\ WF_vars(Next)

TypeOK ==
    /\ pc \in {"constructed", "batch", "collected", "batch_returned", "saved", "returned",
              "raised", "repair", "repair_call"}
    /\ run \in 1..MaxRuns
    /\ exc \in {"none", "WorkerError", "AssertionError", "UnboundLocalError", "OSError"}
    /\ (exc = "none") = (pc # "raised")
    /\ cache.none = ~args.use_cache
    /\ disk.state \in {"absent", "ok", "partial"}

----------------------------------------------------------------------------
(* Vocabulary of the claims *)

(* run_batch has returned its outputs to run_main *)
BatchReturned == pc = "batch_returned"

(* run_main has ended, by returning or by raising *)
Ended == pc \in {"returned", "raised"}

(* A ResultSet: a list of exactly n strings *)
IsResultSet(v, n) == v.isList /\ PyLen(v) = n

(* The failure placeholder: one list of n empty strings *)
Placeholder(n) == PyList(Repeat("", n))

(* The fingerprint of a task: the text itself, or the serialized conversation *)
Fingerprint(p) == IF p.isList THEN JsonDumps(p.msgs) ELSE p.text

(* The cache as the run found it: the store is not rewritten before save_cache *)
CacheAtStart == LoadCache(args.use_cache, disk).d

(* The keys run_batch wrote, with a value other than the one it found *)
Written ==
    {k \in DOMAIN cache.d : k \notin DOMAIN CacheAtStart \/ cache.d[k] # CacheAtStart[k]}

WorkerRaised(i) == res[i].st = "done" /\ res[i].out.status = "WorkerError"
Succeeded(i) == res[i].st = "done" /\ res[i].out.ok

Calls == Cardinality({i \in Idx : res[i].out.called})

(* The only failures of the run are exceptions raised by the worker *)
OnlyWorkerRaises == \A i \in Idx : (res[i].st = "done" /\ ~res[i].out.ok) => WorkerRaised(i)

AllChats == \A i \in Idx : prompts[i].isList
Distinct == \A i, j \in Idx : prompts[i] = prompts[j] => i = j

----------------------------------------------------------------------------
(* C1: run_batch returns exactly one element per input task, and the i-th  *)
(* element is the result of the i-th task, whatever the completion order    *)
(* and whether or not some tasks fail (the failures taken here are worker   *)
(* exceptions).                                                             *)
C1_OneResultPerTaskInOrder ==
    (BatchReturned /\ OnlyWorkerRaises) =>
        /\ Len(outputs) = Len(prompts)
        /\ \A i \in Idx : Succeeded(i) => outputs[i] = res[i].out.result

(* C2: every element run_batch returns and every value it stores in the    *)
(* cache is a list of exactly args.n strings (the failures taken here are   *)
(* worker exceptions).                                                      *)
C2_LengthInvariant ==
    (BatchReturned /\ OnlyWorkerRaises) =>
        /\ \A j \in 1..Len(outputs) : IsResultSet(outputs[j], args.n)
        /\ \A k \in Written : IsResultSet(cache.d[k], args.n)

(* C3: with caching enabled, when the worker raised for a task, run_batch  *)
(* has written no cache entry under that task's fingerprint (unless a task  *)
(* with the same fingerprint succeeded), and every task that succeeded has  *)
(* its entry.                                                               *)
C3_FailuresNotCached ==
    (BatchReturned /\ args.use_cache /\ AllChats) =>
        /\ \A i \in Idx :
              (WorkerRaised(i) /\ \A j \in Idx : Succeeded(j) => prompts[j] # prompts[i])
                  => Fingerprint(prompts[i]) \notin Written
        /\ \A j \in Idx : Succeeded(j) => Fingerprint(prompts[j]) \in DOMAIN cache.d

(* C4: a failed task's output position holds one list of args.n empty      *)
(* strings, and the failure occupies that one position only.                *)
C4_FailurePlaceholder ==
    BatchReturned =>
        \A i \in Idx :
            WorkerRaised(i) =>
                /\ Len(outputs) = Len(prompts)
                /\ outputs[i] = Placeholder(args.n)

(* C5: when the worker raises for a task, the exception does not reach the *)
(* caller of run_batch, at any parallelism: every sibling task is still     *)
(* executed.                                                                *)
C5_WorkerFailureIsolated ==
    (\E i \in Idx : WorkerRaised(i)) =>
        /\ exc # "WorkerError"
        /\ Ended => AllDone

(* C6: when the same batch is run twice with caching enabled, the store     *)
(* being flushed by the first run and loaded by the second, the second run  *)
(* returns what the first returned and calls the worker for no task (taken  *)
(* here for batches of pairwise distinct tasks and runs in which no worker  *)
(* call failed).                                                            *)
C6_Idempotent ==
    (/\ run > 1
     /\ pc = "returned"
     /\ args.use_cache
     /\ Distinct
     /\ prev.returned
     /\ prev.clean
     /\ ~WorkerFailed) =>
        /\ outputs = prev.outputs
        /\ Calls = 0

CachedAtStart(p) ==
    /\ Fingerprint(p) \in DOMAIN CacheAtStart
    /\ PyLen(CacheAtStart[Fingerprint(p)]) = args.n

BeforeSave == pc \in {"batch", "collected", "batch_returned"} \/ (pc = "raised" /\ exc # "OSError")

C8_OwnFingerprintOwnResult ==
    (BatchReturned /\ args.use_cache /\ Distinct /\ ~WorkerFailed) =>
        \A i \in Idx :
            Succeeded(i) =>
                /\ Fingerprint(prompts[i]) \in DOMAIN cache.d
                /\ cache.d[Fingerprint(prompts[i])] = res[i].out.result

(* C9: with caching enabled, run_single returns the cached value without    *)
(* calling the worker exactly when the task's fingerprint is in the cache   *)
(* with a value of length n; otherwise it calls the worker.                 *)
CacheUntouched == pc \in {"batch", "collected"} \/ (pc = "raised" /\ exc # "OSError")

CachedFor(p) ==
    /\ Fingerprint(p) \in DOMAIN cache.d
    /\ PyLen(cache.d[Fingerprint(p)]) = args.n

C9_RunSingleCacheContract ==
    (args.use_cache /\ CacheUntouched) =>
        \A i \in Idx :
            res[i].st = "done" =>
                IF CachedFor(prompts[i])
                THEN /\ res[i].out.ok
                     /\ ~res[i].out.called
                     /\ res[i].out.result = cache.d[Fingerprint(prompts[i])]
                ELSE res[i].out.called

(* C10: with caching enabled, every call of run_main that runs a batch      *)
(* flushes the cache exactly once, and only after run_batch has merged the  *)
(* results into the cache.                                                  *)
C10_FlushOncePerCall ==
    args.use_cache =>
        /\ Ended => flushes = 1
        /\ flushes > 0 => pc \in {"saved", "returned", "raised"}

(* C11: when the worker returns a list whose length is not n, the task is   *)
(* demoted to a failure of that task alone, at every parallelism: the       *)
(* assertion does not reach the caller of run_batch, and nothing of a       *)
(* length other than n is returned or cached.                               *)
WrongLength(i) == res[i].st = "done" /\ res[i].out.status = "AssertionError"

C11_WrongLengthDemoted ==
    (\E i \in Idx : WrongLength(i)) =>
        /\ exc # "AssertionError"
        /\ BatchReturned =>
              /\ \A j \in 1..Len(outputs) : PyLen(outputs[j]) = args.n
              /\ \A k \in Written : PyLen(cache.d[k]) = args.n

(* C12: when writing the store fails at flush time, run_main still returns  *)
(* the outputs of run_batch: a failed flush never ends run_main by raising. *)
C12_ResultsSurviveFlushFailure ==
    ~(pc = "raised" /\ exc = "OSError")

(* C13: with caching disabled nothing touches the cache or the store: the   *)
(* construction loads nothing, every task run_batch executes, text or       *)
(* conversation, is a call of the worker with no lookup, and when run_batch *)
(* returns the worker was called once per task; nothing is written to the   *)
(* cache or to the store and save_cache flushes nothing.                    *)
RunBatchPast == pc \in {"collected", "batch_returned", "saved", "returned"}

C13_CachingDisabled ==
    /\ [](~args.use_cache =>
            /\ cache = None
            /\ flushes = 0
            /\ exc # "UnboundLocalError"
            /\ \A i \in Idx : res[i].st = "done" => res[i].out.called
            /\ RunBatchPast => Calls = Len(prompts))
    /\ [][~args.use_cache => cache' = cache /\ disk' = disk]_vars

C13_Witness ==
    /\ ~args.use_cache
    /\ pc = "returned"
    /\ disk.state = "ok"
    /\ \E i, j \in Idx : prompts[i] = TextT /\ prompts[j] = ConvA
    /\ Calls = Len(prompts)

(* C14: the executions of the tasks never change the live cache: while the  *)
(* tasks run the cache is only read, and every write is made by run_batch   *)
(* after all the outcomes have been collected.                              *)
C14_CacheWrittenAfterCollect ==
    [][cache' # cache => (pc = "collected" /\ AllDone /\ pc' # "batch")]_vars

C14_Witness ==
    /\ pc = "batch"
    /\ args.use_cache
    /\ Parallel
    /\ \E i, j \in Idx :
          /\ Succeeded(i) /\ res[i].out.called
          /\ res[j].st = "running"
          /\ Fingerprint(prompts[i]) \notin DOMAIN cache.d

(* C16: with args.multiprocess = 1 the tasks are executed one at a time in  *)
(* input order: a task is started only when every task before it is done,   *)
(* and at most one worker call is in flight.                                *)
C16_SequentialInOrder ==
    ~Parallel =>
        /\ Cardinality(InFlight) <= 1
        /\ \A i, j \in Idx : (j < i /\ res[i].st # "pending") => res[j].st = "done"

C16_Witness ==
    /\ ~Parallel
    /\ Len(prompts) = 3
    /\ res[1].st = "done" /\ res[1].out.called
    /\ res[2].st = "done" /\ res[2].out.called
    /\ res[3].st = "running"

(* C20: whenever run_batch ends by raising, the in-memory cache is exactly  *)
(* as it was before the call: the results of the tasks that completed       *)
(* before the failure are not in it.                                        *)
RunBatchRaised == pc = "raised" /\ exc # "OSError"

C20_RaiseLeavesCacheUnchanged ==
    (RunBatchRaised /\ args.use_cache) =>
        /\ DOMAIN cache.d = DOMAIN CacheAtStart
        /\ \A k \in DOMAIN cache.d : cache.d[k] = CacheAtStart[k]

C20_Witness ==
    /\ RunBatchRaised
    /\ args.use_cache
    /\ \E i \in Idx :
          /\ Succeeded(i) /\ res[i].out.called
          /\ Fingerprint(prompts[i]) \notin DOMAIN cache.d

(* C15: the persisted store is never left half-written, also when a flush   *)
(* fails part-way: at every point it is absent or a complete mapping.       *)
C15_StoreNeverPartial ==
    disk.state # "partial"

(* C19: when every worker call comes back, by returning or by raising,      *)
(* run_batch eventually returns its outputs: the batch runs to completion.  *)
RunBatchHasReturned ==
    \/ pc \in {"batch_returned", "saved", "returned"}
    \/ pc = "raised" /\ exc = "OSError"

C19_RunBatchEventuallyReturns ==
    (pc = "batch") ~> RunBatchHasReturned

----------------------------------------------------------------------------
(* Vocabulary of the self-repair claims *)

RepairReturned == args.scenario = "selfrepair" /\ pc = "returned"

(* position (r1, a1) comes before (r2, a2) in record order, then attempt order *)
Before(r1, a1, r2, a2) == r1 < r2 \/ (r1 = r2 /\ a1 < a2)

(* the attempts whose repair prompt is a list, among those replayed so far *)
ListAttemptsReplayed ==
    {<<r, a>> \in (1..Len(check_metadata)) \X (1..MaxAttempts) :
        /\ a <= Len(check_metadata[r].repair_prompt)
        /\ check_metadata[r].repair_prompt[a].isList
        /\ Before(r, a, rec, att)}

(* C17: in self-repair mode the output of every record has as many elements *)
(* as the record has prior code attempts, and element i is the record's     *)
(* stored output i when the repair prompt of attempt i is "" or not a list, *)
(* and otherwise what the worker returned for that prompt.                  *)
C17_RepairOutputAligned ==
    RepairReturned =>
        /\ Len(outputs) = Len(check_metadata)
        /\ \A r \in 1..Len(check_metadata) :
              LET check == check_metadata[r]
              IN  /\ Len(outputs[r]) = Len(check.code_list)
                  /\ \A a \in 1..Len(check.code_list) :
                        IF check.repair_prompt[a] = EmptyPrompt \/ ~check.repair_prompt[a].isList
                        THEN outputs[r][a] = check.output_list[a]
                        ELSE \E k \in 1..Len(invocations) :
                                /\ invocations[k].rec = r /\ invocations[k].att = a
                                /\ invocations[k].prompt = check.repair_prompt[a]
                                /\ invocations[k].back
                                /\ invocations[k].result = outputs[r][a]

C17_Witness ==
    /\ RepairReturned
    /\ \E r \in 1..Len(check_metadata) :
          /\ Len(check_metadata[r].code_list) = 3
          /\ check_metadata[r].repair_prompt = <<ConvA, TextT, EmptyPrompt>>
          /\ outputs[r][1].isList
          /\ outputs[r][2] = StoredOutput(2)
          /\ outputs[r][3] = StoredOutput(3)

(* C18: self-repair mode bypasses the cache and the pool: the cache and the *)
(* store are never changed and nothing is flushed; every attempt with a     *)
(* list prompt is a call of the worker, never a lookup; and the calls are   *)
(* made one at a time, in record order then attempt order, whatever         *)
(* args.multiprocess is.                                                    *)
C18_RepairBypassesCacheAndPool ==
    /\ [][cache' = cache /\ disk' = disk /\ flushes' = flushes]_vars
    /\ [][invocations' # invocations =>
            \/ pc = "repair" /\ pc' = "repair_call"
                 /\ Len(invocations') = Len(invocations) + 1
            \/ pc = "repair_call" /\ pc' = "repair"
                 /\ Len(invocations') = Len(invocations)]_vars
    /\ [](/\ flushes = 0
          /\ pc \in {"repair", "returned"} =>
                /\ Len(invocations) = Cardinality(ListAttemptsReplayed)
                /\ \A k \in 1..Len(invocations) : invocations[k].back
          /\ \A k, l \in 1..Len(invocations) :
                k < l => Before(invocations[k].rec, invocations[k].att,
                                invocations[l].rec, invocations[l].att))

C18_Witness ==
    /\ RepairReturned
    /\ args.use_cache
    /\ args.multiprocess > 1
    /\ disk.state = "ok"
    /\ Len(invocations) = 3
    /\ invocations[1].rec = 1
    /\ invocations[3].rec = 2
    /\ \A k \in 1..3 : invocations[k].prompt = ConvA

====
